---- MODULE Spec2Model ----
(***************************************************************************)
(* Model of the persistence layer of the stamp catalogue                   *)
(* (database_manager.py, enhanced_stamp.py).                               *)
(*                                                                         *)
(* Encodings used throughout:                                              *)
(*  - a Python str is a sequence of one-character strings;                 *)
(*  - an Optional value / a nullable SQL column is a sequence of length    *)
(*    at most one: <<>> is None / NULL, <<v>> is the value v;              *)
(*  - a Python Decimal is a record [coef, exp], the number coef * 10^exp,  *)
(*    kept in canonical form (coef not divisible by 10), because Python    *)
(*    compares Decimals by numeric value;                                  *)
(*  - an IEEE-754 double (Python float, SQLite REAL) that is >= 0 is the   *)
(*    natural number x * 2^(15 * FracLimbs), in limbs of base 2^15,        *)
(*    least significant first.  Every double between 2^-7 and 2^17 is      *)
(*    exactly such a number; SQLite's NUMERIC affinity stores an           *)
(*    integer-valued REAL as INTEGER, which is the same number and has the *)
(*    same arithmetic in this range.                                       *)
(***************************************************************************)
EXTENDS Integers, Sequences, FiniteSets, TLC

\* ------------------------------------------------------------------------
\* Natural numbers of arbitrary size (limbs base 2^15, least significant
\* first, no leading zero limb; <<>> is 0).
\* ------------------------------------------------------------------------
LimbBase == 2 ^ 15

FracLimbs == 4

MantissaBits == 53

Limb(a, i) == IF i <= Len(a) THEN a[i] ELSE 0

RECURSIVE BigNorm(_)
BigNorm(a) ==
    IF a = <<>> THEN <<>>
    ELSE IF a[Len(a)] = 0 THEN BigNorm(SubSeq(a, 1, Len(a) - 1))
    ELSE a

RECURSIVE BigOfNat(_)
BigOfNat(n) ==
    IF n = 0 THEN <<>> ELSE <<n % LimbBase>> \o BigOfNat(n \div LimbBase)

RECURSIVE BigAddFrom(_, _, _, _)
BigAddFrom(a, b, i, c) ==
    IF i > Len(a) /\ i > Len(b)
    THEN (IF c = 0 THEN <<>> ELSE <<c>>)
    ELSE LET s == Limb(a, i) + Limb(b, i) + c
         IN  <<s % LimbBase>> \o BigAddFrom(a, b, i + 1, s \div LimbBase)

BigAdd(a, b) == BigAddFrom(a, b, 1, 0)

\* a - b for a >= b
RECURSIVE BigSubFrom(_, _, _, _)
BigSubFrom(a, b, i, borrow) ==
    IF i > Len(a) THEN <<>>
    ELSE LET s == Limb(a, i) - Limb(b, i) - borrow
         IN  IF s < 0
             THEN <<s + LimbBase>> \o BigSubFrom(a, b, i + 1, 1)
             ELSE <<s>> \o BigSubFrom(a, b, i + 1, 0)

BigSub(a, b) == BigNorm(BigSubFrom(a, b, 1, 0))

\* a * q for a small natural q (q < 2^15)
RECURSIVE BigMulFrom(_, _, _, _)
BigMulFrom(a, q, i, c) ==
    IF i > Len(a)
    THEN BigOfNat(c)
    ELSE LET p == a[i] * q + c
         IN  <<p % LimbBase>> \o BigMulFrom(a, q, i + 1, p \div LimbBase)

BigMulSmall(a, q) == IF q = 0 THEN <<>> ELSE BigMulFrom(a, q, 1, 0)

\* -1, 0, 1 as a < b, a = b, a > b
RECURSIVE BigCmpFrom(_, _, _)
BigCmpFrom(a, b, i) ==
    IF i = 0 THEN 0
    ELSE IF a[i] < b[i] THEN -1
    ELSE IF a[i] > b[i] THEN 1
    ELSE BigCmpFrom(a, b, i - 1)

BigCmp(a, b) ==
    IF Len(a) < Len(b) THEN -1
    ELSE IF Len(a) > Len(b) THEN 1
    ELSE BigCmpFrom(a, b, Len(a))

\* quotient and remainder of a by a small natural n (n < 2^15)
AppendQuot(rest, digit) == [q |-> rest.q \o <<digit>>, r |-> rest.r]

RECURSIVE BigDivFrom(_, _, _, _)
BigDivFrom(a, n, i, rem) ==
    IF i = 0 THEN [q |-> <<>>, r |-> rem]
    ELSE AppendQuot(BigDivFrom(a, n, i - 1, (rem * LimbBase + a[i]) % n),
                    (rem * LimbBase + a[i]) \div n)

NormQuot(d) == [q |-> BigNorm(d.q), r |-> d.r]

BigDivSmall(a, n) == NormQuot(BigDivFrom(a, n, Len(a), 0))

RECURSIVE NatBitLen(_)
NatBitLen(n) == IF n = 0 THEN 0 ELSE 1 + NatBitLen(n \div 2)

BigBitLen(a) ==
    IF a = <<>> THEN 0 ELSE 15 * (Len(a) - 1) + NatBitLen(a[Len(a)])

BigIsOdd(a) == a # <<>> /\ a[1] % 2 = 1

\* a * 2^s
BigShiftLeft(a, s) ==
    IF a = <<>> THEN <<>>
    ELSE [i \in 1..(s \div 15) |-> 0] \o BigMulSmall(a, 2 ^ (s % 15))

BigPow2(s) == BigShiftLeft(<<1>>, s)

\* ------------------------------------------------------------------------
\* IEEE-754 binary64 arithmetic, round to nearest, ties to even.
\* ------------------------------------------------------------------------

\* n shifted right by s >= 1 bits, with the last bit shifted out (r) and
\* whether any earlier bit shifted out, or the incoming sticky flag, was set
ShiftOut(d, half, sticky) ==
    [n  |-> d.q,
     r  |-> IF d.r >= half THEN 1 ELSE 0,
     st |-> sticky \/ d.r % half # 0]

ShiftRound(n, s, sticky) ==
    ShiftOut(BigDivSmall(SubSeq(n, ((s - 1) \div 15) + 1, Len(n)),
                         2 ^ (((s - 1) % 15) + 1)),
             2 ^ ((s - 1) % 15),
             sticky \/ \E i \in 1..((s - 1) \div 15) : n[i] # 0)

\* the double nearest to n (+ a nonzero fraction below one unit if sticky)
RoundUp(t, s) ==
    BigShiftLeft(IF t.r = 1 /\ (t.st \/ BigIsOdd(t.n)) THEN BigAdd(t.n, <<1>>) ELSE t.n, s)

RoundAt(n, sticky, s) == IF s <= 0 THEN n ELSE RoundUp(ShiftRound(n, s, sticky), s)

RoundToDouble(n, sticky) == RoundAt(n, sticky, BigBitLen(n) - MantissaBits)

FloatAdd(x, y) == RoundToDouble(BigAdd(x, y), FALSE)

FloatMulInt(x, q) == RoundToDouble(BigMulSmall(x, q), FALSE)

\* ------------------------------------------------------------------------
\* Python Decimal: [coef, exp] is the number coef * 10^exp; in canonical
\* form coef is not divisible by 10, and zero is [<<>>, 0].
\* ------------------------------------------------------------------------
DecimalPrec == 28

MaxDigits == 40

DecZero == [coef |-> <<>>, exp |-> 0]

RECURSIVE BigMulPow10(_, _)
BigMulPow10(a, k) ==
    IF k <= 0 THEN a
    ELSE IF k >= 4 THEN BigMulPow10(BigMulSmall(a, 10000), k - 4)
    ELSE BigMulSmall(a, 10 ^ k)

\* the number of decimal digits of a > 0
DigitLen(a) ==
    CHOOSE k \in 1..MaxDigits :
        /\ BigCmp(a, BigMulPow10(<<1>>, k)) < 0
        /\ BigCmp(a, BigMulPow10(<<1>>, k - 1)) >= 0

RECURSIVE DecNorm(_)
DecNorm(d) ==
    IF d.coef = <<>> THEN DecZero
    ELSE IF BigDivSmall(d.coef, 10000).r = 0
    THEN DecNorm([coef |-> BigDivSmall(d.coef, 10000).q, exp |-> d.exp + 4])
    ELSE IF BigDivSmall(d.coef, 10).r = 0
    THEN DecNorm([coef |-> BigDivSmall(d.coef, 10).q, exp |-> d.exp + 1])
    ELSE d

\* Decimal('c/100'): the amount of c cents
DecOfCents(c) == DecNorm([coef |-> BigOfNat(c), exp |-> -2])

\* Decimal * int (exact: the coefficients stay far below DecimalPrec digits)
DecMulInt(d, q) == DecNorm([coef |-> BigMulSmall(d.coef, q), exp |-> d.exp])

\* Decimal._fix: round the coefficient to DecimalPrec digits, ROUND_HALF_EVEN
\* (Decimal._divide hands it at most DecimalPrec + 2 digits)
DecRoundQuot(t, half, exp) ==
    DecNorm([coef |-> IF t.r > half \/ (t.r = half /\ BigIsOdd(t.q))
                      THEN BigAdd(t.q, <<1>>) ELSE t.q,
             exp |-> exp])

DecRound(d, k) ==
    IF d.coef = <<>> \/ k <= 0 THEN DecNorm(d)
    ELSE DecRoundQuot(BigDivSmall(d.coef, 10 ^ k), 5 * 10 ^ (k - 1), d.exp + k)

DecFix(d) == DecRound(d, DigitLen(d.coef) - DecimalPrec)

\* Decimal / int for n > 0, as Decimal.__truediv__ computes it under the
\* default context (precision DecimalPrec, ROUND_HALF_EVEN): the quotient
\* of coef * 10^shift by n, made odd-ended when inexact, then rounded
DecDivQuot(t, exp) ==
    DecFix([coef |-> IF t.r # 0 /\ BigDivSmall(t.q, 5).r = 0
                     THEN BigAdd(t.q, <<1>>) ELSE t.q,
            exp |-> exp])

DecDivShift(d, n, shift) ==
    DecDivQuot(BigDivSmall(BigMulPow10(d.coef, shift), n), d.exp - shift)

DecDivInt(d, n) ==
    IF d.coef = <<>> THEN DecZero
    ELSE DecDivShift(d, n, DigitLen(BigOfNat(n)) - DigitLen(d.coef) + DecimalPrec + 1)

\* ------------------------------------------------------------------------
\* Conversions between Decimal and float.
\* ------------------------------------------------------------------------
MaxReprFrac == 20

\* float(d): the double nearest to the Decimal d, for d = 0 or
\* 0.01 <= d and d.exp >= -4
RoundQuot(t) == RoundToDouble(t.q, t.r # 0)

FloatOfDecimal(d) ==
    IF d.coef = <<>> THEN <<>>
    ELSE IF d.exp >= 0
    THEN RoundToDouble(BigMulPow10([i \in 1..FracLimbs |-> 0] \o d.coef, d.exp), FALSE)
    ELSE RoundQuot(BigDivSmall([i \in 1..FracLimbs |-> 0] \o d.coef, 10 ^ (0 - d.exp)))

\* Decimal(str(x)) for a float x > 0.  str(x) is the shortest decimal that
\* reads back as x, that is, that lies in the rounding interval of x, and
\* the closest such one to x.  With j fractional digits the candidates are
\* the two integers lo, lo + 1 around t = x * 10^j; the interval reaches
\* below under t and above over t, and includes its ends iff the mantissa
\* is even.  All quantities are in units of 2^-(15 * FracLimbs + 2) * 10^-j;
\* clo and chi are lo and lo + 1 in these units.
ReprResult(lo, cl, ch, incl, near) ==
    LET loIn == cl > 0 \/ (incl /\ cl = 0)
        hiIn == ch < 0 \/ (incl /\ ch = 0)
    IN  [ok   |-> loIn \/ hiIn,
         coef |-> IF ~hiIn THEN lo
                  ELSE IF ~loIn THEN BigAdd(lo, <<1>>)
                  ELSE IF near < 0 \/ (near = 0 /\ ~BigIsOdd(lo)) THEN lo
                  ELSE BigAdd(lo, <<1>>)]

ReprNear(t, incl, lo, clo, chi, above, below) ==
    ReprResult(lo, BigCmp(BigAdd(clo, below), t), BigCmp(chi, BigAdd(t, above)), incl,
               BigCmp(BigSub(t, clo), BigSub(chi, t)))

ReprPick(t, incl, above, below, lo) ==
    ReprNear(t, incl, lo, BigShiftLeft(lo, 15 * FracLimbs + 2),
             BigShiftLeft(BigAdd(lo, <<1>>), 15 * FracLimbs + 2), above, below)

ReprBounds(t, man, e, j) ==
    ReprPick(t, ~BigIsOdd(man), BigMulPow10(BigPow2(e + 1), j),
             BigMulPow10(IF man = BigPow2(MantissaBits - 1) THEN BigPow2(e)
                         ELSE BigPow2(e + 1), j),
             ShiftRound(t, 15 * FracLimbs + 2, FALSE).n)

ReprInterval(x, j, e) ==
    ReprBounds(BigMulPow10(BigMulSmall(x, 4), j), ShiftRound(x, e, FALSE).n, e, j)

ReprCandidate(x, j) == ReprInterval(x, j, BigBitLen(x) - MantissaBits)

ReprDecimal(x, j) == DecNorm([coef |-> ReprCandidate(x, j).coef, exp |-> 0 - j])

DecimalOfRepr(x) ==
    ReprDecimal(x, CHOOSE i \in 0..MaxReprFrac :
                       /\ ReprCandidate(x, i).ok
                       /\ i > 0 => ~ReprCandidate(x, i - 1).ok)

\* ------------------------------------------------------------------------
\* Python values and truthiness.
\* ------------------------------------------------------------------------
None == <<>>

Some(v) == <<v>>

\* a criteria value: a str, an int or a bool
PyStr(s) == [t |-> "str", s |-> s, n |-> 0]

PyInt(n) == [t |-> "int", s |-> <<>>, n |-> n]

PyBool(b) == [t |-> "bool", s |-> <<>>, n |-> IF b THEN 1 ELSE 0]

\* bool(v): '' , 0 and False are falsy
Truthy(v) == IF v.t = "str" THEN v.s # <<>> ELSE v.n # 0

DigitChars == <<"0", "1", "2", "3", "4", "5", "6", "7", "8", "9">>

DigitValue(c) == (CHOOSE i \in 1..10 : DigitChars[i] = c) - 1

RECURSIVE ParseInt(_)
ParseInt(s) ==
    IF s = <<>> THEN 0
    ELSE 10 * ParseInt(SubSeq(s, 1, Len(s) - 1)) + DigitValue(s[Len(s)])

\* int(v) for an int or a str of decimal digits
IntOf(v) == IF v.t = "str" THEN ParseInt(v.s) ELSE v.n

\* ------------------------------------------------------------------------
\* enhanced_stamp.py
\* ------------------------------------------------------------------------
Unknown == <<"U", "n", "k", "n", "o", "w", "n">>

\* Stamp(scott_number, description) with the dataclass defaults
DefaultStamp(scott_number, description) ==
    [scott_number |-> scott_number, description |-> description,
     country |-> None, year |-> None, denomination |-> None, color |-> None,
     condition_grade |-> Unknown, gum_condition |-> Unknown,
     perforation |-> None, used |-> FALSE, plate_block |-> FALSE,
     first_day_cover |-> FALSE, location |-> None, notes |-> None,
     qty_mint |-> Some(0), qty_used |-> Some(0),
     catalog_value_mint |-> DecZero, catalog_value_used |-> DecZero,
     purchase_price |-> DecZero, current_market_value |-> DecZero,
     want_list |-> FALSE, for_sale |-> FALSE, date_acquired |-> None,
     source |-> None, image_path |-> None]

\* calculate_total_value taking the mint quantity for a used stamp
calculate_total_value_mint_qty(self) ==
    DecMulInt(IF self.used THEN self.catalog_value_used ELSE self.catalog_value_mint,
              IF self.qty_mint # None THEN self.qty_mint[1] ELSE 0)

\* Stamp.calculate_total_value
calculate_total_value(self) ==
    IF self.used
    THEN LET qty == IF self.qty_used # None THEN self.qty_used[1] ELSE 0
         IN  DecMulInt(self.catalog_value_used, qty)
    ELSE LET qty == IF self.qty_mint # None THEN self.qty_mint[1] ELSE 0
         IN  DecMulInt(self.catalog_value_mint, qty)

\* ------------------------------------------------------------------------
\* database_manager.py: the stamps table.  A row is a record of the id and
\* the 25 columns; a column value is NULL (<<>>) or <<v>> with v a text, an
\* integer or a float.
\* ------------------------------------------------------------------------
SqlBool(b) == Some(IF b THEN 1 ELSE 0)

\* DatabaseManager._stamp_to_tuple, as bound to the columns by sqlite3
\* (a bool is stored as 0/1, float(Decimal) as a REAL)
stamp_to_tuple(stamp) ==
    [scott_number |-> Some(stamp.scott_number),
     description |-> Some(stamp.description),
     country |-> stamp.country, year |-> stamp.year,
     denomination |-> stamp.denomination, color |-> stamp.color,
     condition_grade |-> Some(stamp.condition_grade),
     gum_condition |-> Some(stamp.gum_condition),
     perforation |-> stamp.perforation, used |-> SqlBool(stamp.used),
     plate_block |-> SqlBool(stamp.plate_block),
     first_day_cover |-> SqlBool(stamp.first_day_cover),
     location |-> stamp.location, notes |-> stamp.notes,
     qty_mint |-> stamp.qty_mint, qty_used |-> stamp.qty_used,
     catalog_value_mint |-> Some(FloatOfDecimal(stamp.catalog_value_mint)),
     catalog_value_used |-> Some(FloatOfDecimal(stamp.catalog_value_used)),
     purchase_price |-> Some(FloatOfDecimal(stamp.purchase_price)),
     current_market_value |-> Some(FloatOfDecimal(stamp.current_market_value)),
     want_list |-> SqlBool(stamp.want_list), for_sale |-> SqlBool(stamp.for_sale),
     date_acquired |-> stamp.date_acquired, source |-> stamp.source,
     image_path |-> stamp.image_path]

\* str(v or dflt) for a text column
TextOr(v, dflt) == IF v = None \/ v[1] = <<>> THEN dflt ELSE v[1]

\* int(v or 0) for an integer column
IntOrZero(v) == IF v = None THEN 0 ELSE v[1]

\* bool(v) for a 0/1 column
BoolOf(v) == v # None /\ v[1] # 0

\* Decimal(str(v or '0.00')) for a currency column
DecimalOr(v) == IF v = None \/ v[1] = <<>> THEN DecZero ELSE DecimalOfRepr(v[1])

\* DatabaseManager._create_stamp_from_row
create_stamp_from_row(row) ==
    [scott_number |-> TextOr(row.scott_number, <<>>),
     description |-> TextOr(row.description, <<>>),
     country |-> row.country,
     year |-> IF row.year # None /\ row.year[1] # 0 THEN row.year ELSE None,
     denomination |-> row.denomination, color |-> row.color,
     condition_grade |-> TextOr(row.condition_grade, Unknown),
     gum_condition |-> TextOr(row.gum_condition, Unknown),
     perforation |-> row.perforation, used |-> BoolOf(row.used),
     plate_block |-> BoolOf(row.plate_block),
     first_day_cover |-> BoolOf(row.first_day_cover),
     location |-> row.location, notes |-> row.notes,
     qty_mint |-> Some(IntOrZero(row.qty_mint)),
     qty_used |-> Some(IntOrZero(row.qty_used)),
     catalog_value_mint |-> DecimalOr(row.catalog_value_mint),
     catalog_value_used |-> DecimalOr(row.catalog_value_used),
     purchase_price |-> DecimalOr(row.purchase_price),
     current_market_value |-> DecimalOr(row.current_market_value),
     want_list |-> BoolOf(row.want_list), for_sale |-> BoolOf(row.for_sale),
     date_acquired |-> row.date_acquired, source |-> row.source,
     image_path |-> row.image_path]

\* ------------------------------------------------------------------------
\* database_manager.py: the operations, as functions of the table contents
\* (tbl: the rows in rowid order; sq: the AUTOINCREMENT counter).
\* ------------------------------------------------------------------------
Row(id, cols) == [id |-> id] @@ cols

Ids(tbl) == {tbl[i].id : i \in 1..Len(tbl)}

\* DatabaseManager.load_collection: the records in storage order
load_collection(tbl) == [i \in 1..Len(tbl) |-> create_stamp_from_row(tbl[i])]

\* add_stamp with the id taken from the number of rows (no AUTOINCREMENT)
add_stamp_count_id(tbl, sq, stamp, lastrowid) ==
    [table |-> Append(tbl, Row(Len(tbl) + 1, stamp_to_tuple(stamp))),
     seq |-> sq + 1, raised |-> "none", value |-> Len(tbl) + 1, closed |-> TRUE]

\* add_stamp on a table whose id is INTEGER PRIMARY KEY without AUTOINCREMENT:
\* the new id is one more than the largest id present
add_stamp_max_id(tbl, sq, stamp, lastrowid) ==
    LET stamp_id == 1 + (IF tbl = <<>> THEN 0 ELSE tbl[Len(tbl)].id)
    IN  [table |-> Append(tbl, Row(stamp_id, stamp_to_tuple(stamp))),
         seq |-> sq + 1, raised |-> "none", value |-> stamp_id, closed |-> TRUE]

\* DatabaseManager.add_stamp: INSERT (the row gets the next AUTOINCREMENT id),
\* then cursor.lastrowid. With an id the insert is committed, the connection
\* closed and the id returned. Without one ValueError is raised ahead of
\* commit() and close(): the insert stays uncommitted on a connection that is
\* left open.
add_stamp(tbl, sq, stamp, lastrowid) ==
    IF lastrowid = None
    THEN [table |-> tbl, seq |-> sq, raised |-> "ValueError", value |-> 0,
          closed |-> FALSE]
    ELSE [table |-> Append(tbl, Row(sq + 1, stamp_to_tuple(stamp))),
          seq |-> sq + 1, raised |-> "none", value |-> lastrowid[1],
          closed |-> TRUE]

\* update_stamp as INSERT OR REPLACE: a missing id gets a new row
update_stamp_upsert(tbl, stamp_id, stamp) ==
    IF stamp_id \in Ids(tbl)
    THEN [i \in 1..Len(tbl) |->
             IF tbl[i].id = stamp_id THEN Row(stamp_id, stamp_to_tuple(stamp)) ELSE tbl[i]]
    ELSE Append(tbl, Row(stamp_id, stamp_to_tuple(stamp)))

\* DatabaseManager.update_stamp: UPDATE stamps SET ... WHERE id=?
update_stamp(tbl, stamp_id, stamp) ==
    [i \in 1..Len(tbl) |->
        IF tbl[i].id = stamp_id THEN Row(stamp_id, stamp_to_tuple(stamp)) ELSE tbl[i]]

\* delete_stamp with WHERE id<=? in place of WHERE id=?
delete_stamp_upto(tbl, stamp_id) == SelectSeq(tbl, LAMBDA row : row.id > stamp_id)

\* delete_stamp with WHERE id>=? in place of WHERE id=?
delete_stamp_from(tbl, stamp_id) == SelectSeq(tbl, LAMBDA row : row.id < stamp_id)

\* DatabaseManager.delete_stamp: DELETE FROM stamps WHERE id=?
delete_stamp(tbl, stamp_id) == SelectSeq(tbl, LAMBDA row : row.id # stamp_id)

UpperCase == <<"A", "B", "C", "D", "E", "F", "G", "H", "I", "J", "K", "L", "M",
               "N", "O", "P", "Q", "R", "S", "T", "U", "V", "W", "X", "Y", "Z">>

LowerCase == <<"a", "b", "c", "d", "e", "f", "g", "h", "i", "j", "k", "l", "m",
               "n", "o", "p", "q", "r", "s", "t", "u", "v", "w", "x", "y", "z">>

ToLower(c) ==
    IF \E i \in 1..26 : UpperCase[i] = c
    THEN LowerCase[CHOOSE i \in 1..26 : UpperCase[i] = c]
    ELSE c

\* SQLite's LIKE: % is any run of characters, _ any one character, letters
\* match without regard to case
RECURSIVE LikeMatch(_, _)
LikeMatch(pat, txt) ==
    IF pat = <<>> THEN txt = <<>>
    ELSE IF pat[1] = "%"
    THEN LikeMatch(Tail(pat), txt) \/ (txt # <<>> /\ LikeMatch(pat, Tail(txt)))
    ELSE /\ txt # <<>>
         /\ pat[1] = "_" \/ ToLower(pat[1]) = ToLower(txt[1])
         /\ LikeMatch(Tail(pat), Tail(txt))

CriteriaKeys ==
    {"description", "scott_number", "country", "year_from", "year_to",
     "used_only", "want_list"}

\* the LIKE condition added for an empty text as well: LIKE '%%'
LikeConditionAlways(criteria, key) ==
    <<[col |-> key, op |-> "LIKE", text |-> <<"%">> \o criteria[key].s \o <<"%">>,
       num |-> 0]>>

LikeCondition(criteria, key) ==
    IF Truthy(criteria[key])
    THEN <<[col |-> key, op |-> "LIKE", text |-> <<"%">> \o criteria[key].s \o <<"%">>,
            num |-> 0]>>
    ELSE <<>>

YearCondition(criteria, key, op) ==
    IF Truthy(criteria[key])
    THEN <<[col |-> "year", op |-> op, text |-> <<>>, num |-> IntOf(criteria[key])]>>
    ELSE <<>>

\* the flag condition testing for the flag being unset
FlagConditionUnset(criteria, key, col) ==
    IF Truthy(criteria[key])
    THEN <<[col |-> col, op |-> "=", text |-> <<>>, num |-> 0]>>
    ELSE <<>>

FlagCondition(criteria, key, col) ==
    IF Truthy(criteria[key])
    THEN <<[col |-> col, op |-> "=", text |-> <<>>, num |-> 1]>>
    ELSE <<>>

\* the conditions and params search_stamps collects, in its order
SearchConditions(criteria) ==
    LikeCondition(criteria, "description")
    \o LikeCondition(criteria, "scott_number")
    \o LikeCondition(criteria, "country")
    \o YearCondition(criteria, "year_from", ">=")
    \o YearCondition(criteria, "year_to", "<=")
    \o FlagCondition(criteria, "used_only", "used")
    \o FlagCondition(criteria, "want_list", "want_list")

\* one condition on one row; a comparison with NULL is not true
SqlHolds(row, cond) ==
    /\ row[cond.col] # None
    /\ CASE cond.op = "LIKE" -> LikeMatch(cond.text, row[cond.col][1])
         [] cond.op = ">="   -> row[cond.col][1] >= cond.num
         [] cond.op = "<="   -> row[cond.col][1] <= cond.num
         [] OTHER            -> row[cond.col][1] = cond.num

\* the WHERE clause with the conditions joined by OR
WhereAny(row, conditions) == \E i \in 1..Len(conditions) : SqlHolds(row, conditions[i])

\* the WHERE clause: ' AND '.join(conditions), or no WHERE at all
Where(row, conditions) == \A i \in 1..Len(conditions) : SqlHolds(row, conditions[i])

\* the rows the query of search_stamps selects
SearchRows(tbl, criteria) ==
    SelectSeq(tbl, LAMBDA row : Where(row, SearchConditions(criteria)))

\* the (id, stamp) pairs search_stamps builds from the rows
SearchResults(rows) ==
    [i \in 1..Len(rows) |-> <<rows[i].id, create_stamp_from_row(rows[i])>>]

\* DatabaseManager.search_stamps
search_stamps(tbl, criteria) ==
    IF ~(CriteriaKeys \subseteq DOMAIN criteria)
    THEN [raised |-> "KeyError", value |-> <<>>]
    ELSE [raised |-> "none", value |-> SearchResults(SearchRows(tbl, criteria))]

\* the count of the rows whose flag is 0
CountFlagUnset(tbl, col) ==
    Cardinality({i \in 1..Len(tbl) : tbl[i][col] # None /\ tbl[i][col][1] = 0})

\* SELECT COUNT(*) FROM stamps WHERE col=1
CountFlag(tbl, col) ==
    Cardinality({i \in 1..Len(tbl) : tbl[i][col] # None /\ tbl[i][col][1] = 1})

\* a * b in SQL: NULL when an operand is NULL
SqlMul(value, qty) ==
    IF value = None \/ qty = None THEN None ELSE Some(FloatMulInt(value[1], qty[1]))

\* CASE WHEN used=1 THEN catalog_value_used * qty_used
\*      ELSE catalog_value_mint * qty_mint END
RowValue(row) ==
    IF row.used # None /\ row.used[1] = 1
    THEN SqlMul(row.catalog_value_used, row.qty_used)
    ELSE SqlMul(row.catalog_value_mint, row.qty_mint)

\* SUM(...) over the rows up to the i-th: NULLs are skipped, NULL if no
\* value was added, the values are added in row order
RECURSIVE SqlSum(_, _)
SqlSum(tbl, i) ==
    IF i = 0 THEN None
    ELSE LET acc == SqlSum(tbl, i - 1)
             v   == RowValue(tbl[i])
         IN  IF v = None THEN acc
             ELSE IF acc = None THEN v
             ELSE Some(FloatAdd(acc[1], v[1]))

\* Decimal(str(total_value or 0))
TotalCatalogValue(total_value) ==
    IF total_value = None \/ total_value[1] = <<>> THEN DecZero
    ELSE DecimalOfRepr(total_value[1])

\* the counts and the total get_statistics collects
StatsCounts(tbl) ==
    [total_stamps |-> Len(tbl),
     used_stamps |-> CountFlag(tbl, "used"),
     mint_stamps |-> Len(tbl) - CountFlag(tbl, "used"),
     countries |-> Cardinality({tbl[i].country[1] :
                      i \in {k \in 1..Len(tbl) : tbl[k].country # None}}),
     total_catalog_value |-> TotalCatalogValue(SqlSum(tbl, Len(tbl))),
     average_value |-> DecZero,
     want_list_items |-> CountFlag(tbl, "want_list"),
     for_sale_items |-> CountFlag(tbl, "for_sale")]

\* the average left undivided
AverageValueUndivided(stats) == stats.total_catalog_value

\* stats['total_catalog_value'] / stats['total_stamps'] if there are stamps
AverageValue(stats) ==
    IF stats.total_stamps > 0
    THEN DecDivInt(stats.total_catalog_value, stats.total_stamps)
    ELSE DecZero

WithAverage(stats) == [stats EXCEPT !.average_value = AverageValue(stats)]

\* DatabaseManager.get_statistics
get_statistics(tbl) == WithAverage(StatsCounts(tbl))

\* ------------------------------------------------------------------------
\* The store as a state machine.
\*   table: the rows of the stamps table, in rowid order
\*   seq:   the AUTOINCREMENT counter (the largest id ever assigned)
\*   ret:   the last operation called, its arguments and what it returned
\*          or raised (value is 0 or <<>> when nothing was returned)
\*   conns: the number of connections that operations opened and did not
\*          close. The first of them holds the uncommitted INSERT of a failed
\*          add_stamp, and with it the write lock of the database file.
\*   stmt:  the number of statements that the get_statistics call in
\*          progress has executed (0 when its statements run without another
\*          connection in between, as they do for a single caller)
\*   gui:   the fields of the front-end's window object: for
\*          EnhancedStampGUI the platform, current_stamp_id and
\*          search_results, the (id, stamp) pairs behind the rows of the
\*          stamp table; for the wx StampFrame also the controls of its
\*          edit form
\*   click: the fields of its MacOSDoubleClickHandler, and the clock that
\*          time.time() reads, in ticks of 0.05 s
\* ------------------------------------------------------------------------
VARIABLES table, seq, ret, conns, stmt, gui, click

vars == <<table, seq, ret, conns, stmt, gui, click>>

MaxId == 3

MaxConns == 2

Ret(op, stamp_id, stamp, criteria, raised, value) ==
    [op |-> op, stamp_id |-> stamp_id, stamp |-> stamp, criteria |-> criteria,
     raised |-> raised, value |-> value]

\* the records the callers pass in
Stamp1 ==
    [DefaultStamp(<<"A", "1">>, <<"A", "b">>) EXCEPT
        !.country = Some(<<"U", "S">>), !.year = Some(1),
        !.condition_grade = <<"F", "i", "n", "e">>,
        !.qty_mint = Some(3), !.catalog_value_mint = DecOfCents(10)]

Stamp2 ==
    [DefaultStamp(<<"a", "2">>, <<"b">>) EXCEPT
        !.country = Some(<<"u", "s">>), !.year = Some(0), !.used = TRUE,
        !.qty_used = Some(2), !.catalog_value_used = DecOfCents(250),
        !.want_list = TRUE]

Stamp3 ==
    [DefaultStamp(<<"B">>, <<"a", "b">>) EXCEPT
        !.condition_grade = <<>>, !.qty_mint = None,
        !.catalog_value_mint = DecOfCents(1000),
        !.want_list = TRUE, !.for_sale = TRUE]

Stamp4 ==
    [DefaultStamp(<<"A", "1">>, <<"%">>) EXCEPT
        !.country = Some(<<>>), !.year = Some(2), !.used = TRUE,
        !.qty_used = None, !.catalog_value_used = DecOfCents(20),
        !.qty_mint = Some(1), !.catalog_value_mint = DecOfCents(70)]

StampInputs == {Stamp1, Stamp2, Stamp3, Stamp4}

\* the criteria the callers pass in: the empty value of each criterion, the
\* values searched for, and mappings that lack keys
CriteriaEmpty ==
    [description |-> PyStr(<<>>), scott_number |-> PyStr(<<>>),
     country |-> PyStr(<<>>), year_from |-> PyStr(<<>>), year_to |-> PyStr(<<>>),
     used_only |-> PyBool(FALSE), want_list |-> PyBool(FALSE)]

CriteriaValues ==
    [description |-> {PyStr(<<"a">>), PyStr(<<"%">>)},
     scott_number |-> {PyStr(<<"a">>)},
     country |-> {PyStr(<<"u", "s">>)}, year_from |-> {PyStr(<<"1">>), PyInt(0)},
     year_to |-> {PyStr(<<"1">>), PyInt(0)}, used_only |-> {PyBool(TRUE)},
     want_list |-> {PyBool(TRUE)}]

\* the keys of a criteria mapping whose value differs from the empty one
NonEmptyKeys(criteria) ==
    {k \in DOMAIN criteria : criteria[k] # CriteriaEmpty[k]}

\* the criteria mapping with one more criterion filled in
WithCriterion(criteria, key) ==
    {[criteria EXCEPT ![key] = v] : v \in CriteriaValues[key]}

OneCriterion ==
    UNION {WithCriterion(CriteriaEmpty, k) : k \in CriteriaKeys}

TwoCriteria ==
    UNION {WithCriterion(c, k) : c \in OneCriterion, k \in CriteriaKeys}

FullCriteria == {CriteriaEmpty} \cup OneCriterion \cup TwoCriteria

PartialCriteria ==
    {[k \in {} |-> PyStr(<<>>)], [k \in {"description"} |-> PyStr(<<"a">>)]}

SearchInputs == FullCriteria \cup PartialCriteria

NoRet == Ret("none", 0, <<>>, <<>>, "none", <<>>)

\* ------------------------------------------------------------------------
\* enhanced_gui.py: EnhancedStampGUI. A handler is a function of the object's
\* fields (g), the store (tbl, sq) and the event's inputs; it gives the new
\* fields and store, the steps it took in their order, the popups it showed
\* and the id it passed to the persistence layer (target).
\* ------------------------------------------------------------------------

\* `not x` for an Optional[int]
Falsy(x) == x = None \/ x[1] = 0

GuiResult(g, tbl, sq, steps, popups, target) ==
    [gui |-> g, table |-> tbl, seq |-> sq, steps |-> steps, popups |-> popups,
     target |-> target, answer |-> None]

\* the handler put a question to the user, who gave answer
Asked(r, answer) == [r EXCEPT !.answer = Some(answer)]

\* _refresh_stamp_list(): every stamp of load_collection, paired with None
Unpaired(tbl) == [i \in 1..Len(tbl) |-> <<None, load_collection(tbl)[i]>>]

\* _refresh_stamp_list(results): the (id, stamp) pairs of a search
Paired(value) == [i \in 1..Len(value) |-> <<Some(value[i][1]), value[i][2]>>]

\* _refresh_all_stamps_from_database: the search with the all-empty criteria
RefreshAll(tbl) == Paired(search_stamps(tbl, CriteriaEmpty).value)

\* EnhancedStampGUI.__init__ over the store it finds; macos is what _is_macos()
\* gives on the platform
GuiNew(macos, tbl) ==
    [macos |-> macos, current_stamp_id |-> None, search_results |-> Unpaired(tbl)]

\* the clock is counted in ticks of 0.05 s: the least gap of a double-click
\* (it must be exceeded) and the two thresholds, 0.3 s and 0.5 s
MinGap == 1

ThresholdMacOS == 6

ThresholdOther == 10

\* what time.time() gives when the window opens: seconds since 1970, far
\* more than a threshold
StartTime == 12

\* MacOSDoubleClickHandler.__init__; time is the clock as it was last read
ClickNew(macos, time) ==
    [double_click_threshold |-> IF macos THEN ThresholdMacOS ELSE ThresholdOther,
     last_click_time |-> 0, last_clicked_row |-> None, time |-> time]

\* reset_click_state that resets nothing
reset_click_state_keep(c) == c

\* MacOSDoubleClickHandler.reset_click_state
reset_click_state(c) == [c EXCEPT !.last_click_time = 0, !.last_clicked_row = None]

\* MacOSDoubleClickHandler.handle_table_event for the event 'stamp_table'
\* with selected_row selected, the clock reading current_time
handle_table_event(c, selected_row, current_time) ==
    [is_double_click |->
        /\ current_time - c.last_click_time <= c.double_click_threshold
        /\ Some(selected_row) = c.last_clicked_row
        /\ current_time - c.last_click_time > MinGap,
     click |-> [c EXCEPT !.last_click_time = current_time,
                         !.last_clicked_row = Some(selected_row),
                         !.time = current_time]]

\* _clear_form (the form fields are the event's inputs, not state)
clear_form(g) == [g EXCEPT !.current_stamp_id = None]

\* _handle_table_select and _handle_table_double_click: the id paired with
\* the row becomes the selection
handle_table_select(g, row) ==
    IF 0 <= row /\ row < Len(g.search_results)
    THEN [g EXCEPT !.current_stamp_id = g.search_results[row + 1][1]]
    ELSE g

\* the tail of the three handlers without _clear_form
WrittenSelected(g, tbl, sq, steps, popup, target) ==
    GuiResult([g EXCEPT !.search_results = RefreshAll(tbl)], tbl, sq,
              steps \o <<"_refresh_all_stamps_from_database", "_update_statistics">>,
              <<popup>>, target)

\* _add_stamp, _update_stamp and _delete_stamp once the store has been
\* written: the form is cleared, the list refreshed from the store, the
\* statistics updated, and a popup reports the success
Written(g, tbl, sq, steps, popup, target) ==
    GuiResult([g EXCEPT !.current_stamp_id = None, !.search_results = RefreshAll(tbl)],
              tbl, sq,
              steps \o <<"_clear_form", "_refresh_all_stamps_from_database",
                         "_update_statistics">>,
              <<popup>>, target)

\* _add_stamp
gui_add_stamp(g, tbl, sq, stamp) ==
    Written(g, add_stamp(tbl, sq, stamp, Some(sq + 1)).table, sq + 1,
            <<"_add_stamp", "add_stamp">>, "Stamp added successfully!", None)

\* _update_stamp without the test for a selection: with nothing selected it
\* writes to the first row
gui_update_stamp_unguarded(g, tbl, sq, stamp) ==
    Written(g, update_stamp(tbl, IF Falsy(g.current_stamp_id) THEN 1
                                 ELSE g.current_stamp_id[1], stamp), sq,
            <<"_update_stamp", "update_stamp">>, "Stamp updated successfully!",
            g.current_stamp_id)

\* _update_stamp
gui_update_stamp(g, tbl, sq, stamp) ==
    IF Falsy(g.current_stamp_id)
    THEN GuiResult(g, tbl, sq, <<"_update_stamp">>, <<"No stamp selected!">>, None)
    ELSE Written(g, update_stamp(tbl, g.current_stamp_id[1], stamp), sq,
                 <<"_update_stamp", "update_stamp">>, "Stamp updated successfully!",
                 g.current_stamp_id)

\* _delete_stamp that deletes whatever the answer
gui_delete_stamp_unasked(g, tbl, sq, answer) ==
    IF Falsy(g.current_stamp_id)
    THEN GuiResult(g, tbl, sq, <<"_delete_stamp">>, <<"No stamp selected!">>, None)
    ELSE Asked(Written(g, delete_stamp(tbl, g.current_stamp_id[1]), sq,
                       <<"_delete_stamp", "popup_yes_no", "delete_stamp">>,
                       "Stamp deleted successfully!", g.current_stamp_id), answer)

\* _delete_stamp; answer is what popup_yes_no returns
gui_delete_stamp(g, tbl, sq, answer) ==
    IF Falsy(g.current_stamp_id)
    THEN GuiResult(g, tbl, sq, <<"_delete_stamp">>, <<"No stamp selected!">>, None)
    ELSE IF answer = "Yes"
    THEN Asked(Written(g, delete_stamp(tbl, g.current_stamp_id[1]), sq,
                       <<"_delete_stamp", "popup_yes_no", "delete_stamp">>,
                       "Stamp deleted successfully!", g.current_stamp_id), answer)
    ELSE Asked(GuiResult(g, tbl, sq, <<"_delete_stamp", "popup_yes_no">>, <<>>, None),
               answer)

\* _perform_search
perform_search(g, tbl, sq, criteria) ==
    GuiResult([g EXCEPT !.search_results = Paired(search_stamps(tbl, criteria).value)],
              tbl, sq, <<"search_stamps">>, <<>>, None)

\* _clear_search, and _handle_tab_selection for the event 'tab_group'
clear_search(g, tbl, sq) ==
    GuiResult([g EXCEPT !.search_results = RefreshAll(tbl)], tbl, sq,
              <<"_refresh_all_stamps_from_database">>, <<>>, None)

\* the words _handle_keyboard_shortcuts looks for
CMD == <<"c", "m", "d">>

COMMAND == <<"c", "o", "m", "m", "a", "n", "d">>

CONTROL == <<"c", "o", "n", "t", "r", "o", "l">>

CTRL == <<"c", "t", "r", "l">>

DELETE == <<"d", "e", "l", "e", "t", "e">>

DEL == <<"d", "e", "l">>

RETURN == <<"r", "e", "t", "u", "r", "n">>

\* str.lower()
StrLower(s) == [i \in 1..Len(s) |-> ToLower(s[i])]

\* `sub in s` for two strings
InStr(sub, s) == \E i \in 0..(Len(s) - Len(sub)) : SubSeq(s, i + 1, i + Len(sub)) = sub

\* _handle_keyboard_shortcuts: the branch an event takes, from its
\* lower-cased name, tested in the order of the code
KeyBranch(event_str, macos) ==
    IF macos /\ (InStr(CMD, event_str) \/ InStr(COMMAND, event_str))
    THEN IF InStr(<<"n">>, event_str) THEN "new"
         ELSE IF InStr(<<"s">>, event_str) THEN "save"
         ELSE IF InStr(<<"d">>, event_str) THEN "delete"
         ELSE IF InStr(<<"e">>, event_str) THEN "edit"
         ELSE IF InStr(<<"q">>, event_str) THEN "quit"
         ELSE "none"
    ELSE IF InStr(CONTROL, event_str) \/ InStr(CTRL, event_str)
    THEN IF InStr(<<"n">>, event_str) THEN "new"
         ELSE IF InStr(<<"s">>, event_str) THEN "save"
         ELSE IF InStr(DELETE, event_str) \/ InStr(DEL, event_str) THEN "delete"
         ELSE "none"
    ELSE IF event_str = RETURN \/ event_str = <<"\r">> THEN "enter"
    ELSE "none"

\* the save branch: the form's fields validate (valid) or not
SaveBranch(g, tbl, sq, valid, stamp) ==
    IF ~valid THEN GuiResult(g, tbl, sq, <<"_validate_all_fields">>, <<>>, None)
    ELSE IF ~Falsy(g.current_stamp_id) THEN gui_update_stamp(g, tbl, sq, stamp)
    ELSE gui_add_stamp(g, tbl, sq, stamp)

\* _handle_keyboard_shortcuts once the branch is known; row is the row
\* selected in the table
Shortcut(g, tbl, sq, branch, valid, stamp, answer, row) ==
    CASE branch = "new" ->
           GuiResult(clear_form(g), tbl, sq,
                     <<"_clear_form", "_switch_to_edit_tab">>, <<>>, None)
      [] branch = "save" -> SaveBranch(g, tbl, sq, valid, stamp)
      [] branch = "delete" -> gui_delete_stamp(g, tbl, sq, answer)
      [] branch = "edit" ->
           GuiResult(g, tbl, sq,
                     IF ~Falsy(g.current_stamp_id) THEN <<"_switch_to_edit_tab">>
                     ELSE <<>>, <<>>, None)
      [] branch = "enter" ->
           GuiResult(handle_table_select(g, row), tbl, sq,
                     <<"_handle_table_double_click">>, <<>>, None)
      [] OTHER -> GuiResult(g, tbl, sq, <<>>, <<>>, None)

\* EnhancedStampGUI._handle_keyboard_shortcuts
handle_keyboard_shortcuts(g, tbl, sq, event, valid, stamp, answer, row) ==
    Shortcut(g, tbl, sq, KeyBranch(StrLower(event), g.macos), valid, stamp, answer, row)

Init ==
    /\ table = <<>>
    /\ seq = 0
    /\ ret = NoRet
    /\ conns = 0
    /\ stmt = 0
    /\ gui = GuiNew(FALSE, <<>>)
    /\ click = ClickNew(FALSE, StartTime)

\* A statement that writes, run while another connection holds the write
\* lock: execute() raises OperationalError (database is locked), and the
\* operation's own connection is left open, as close() is not reached.
Locked(op, stamp_id, stamp) ==
    /\ conns > 0
    /\ conns < MaxConns
    /\ ret' = Ret(op, stamp_id, stamp, <<>>, "OperationalError", <<>>)
    /\ conns' = conns + 1
    /\ UNCHANGED <<table, seq>>

\* The callers (the front-ends' event loops, the tests) are single-threaded:
\* they make one call at a time and take its result before the next call.
LoadCollection ==
    /\ ret.op = "none"
    /\ ret' = Ret("load_collection", 0, <<>>, <<>>, "none", load_collection(table))
    /\ UNCHANGED <<table, seq, conns, stmt, gui, click>>

AddStamp(stamp) ==
    /\ ret.op = "none"
    /\ UNCHANGED <<stmt, gui, click>>
    /\ \/ Locked("add_stamp", 0, stamp)
       \/ /\ conns = 0
          /\ seq < MaxId
          /\ \E lastrowid \in {None, Some(seq + 1)} :
                 LET r == add_stamp(table, seq, stamp, lastrowid)
                 IN  /\ table' = r.table
                     /\ seq' = r.seq
                     /\ ret' = Ret("add_stamp", 0, stamp, <<>>, r.raised, r.value)
                     /\ conns' = IF r.closed THEN conns ELSE conns + 1

UpdateStamp(stamp_id, stamp) ==
    /\ ret.op = "none"
    /\ UNCHANGED <<stmt, gui, click>>
    /\ \/ Locked("update_stamp", stamp_id, stamp)
       \/ /\ conns = 0
          /\ table' = update_stamp(table, stamp_id, stamp)
          /\ ret' = Ret("update_stamp", stamp_id, stamp, <<>>, "none", <<>>)
          /\ UNCHANGED <<seq, conns>>

DeleteStamp(stamp_id) ==
    /\ ret.op = "none"
    /\ UNCHANGED <<stmt, gui, click>>
    /\ \/ Locked("delete_stamp", stamp_id, <<>>)
       \/ /\ conns = 0
          /\ table' = delete_stamp(table, stamp_id)
          /\ ret' = Ret("delete_stamp", stamp_id, <<>>, <<>>, "none", <<>>)
          /\ UNCHANGED <<seq, conns>>

SearchStamps(criteria) ==
    /\ ret.op = "none"
    /\ LET r == search_stamps(table, criteria)
       IN  ret' = Ret("search_stamps", 0, <<>>, criteria, r.raised, r.value)
    /\ UNCHANGED <<table, seq, conns, stmt, gui, click>>

GetStatistics ==
    /\ ret.op = "none"
    /\ ret' = Ret("get_statistics", 0, <<>>, <<>>, "none", get_statistics(table))
    /\ UNCHANGED <<table, seq, conns, stmt, gui, click>>

\* the caller has taken the result (or caught the exception) and is back in
\* its loop
Return ==
    /\ ret.op # "none"
    /\ ret' = NoRet
    /\ UNCHANGED <<table, seq, conns, stmt, gui, click>>

\* The connections left open are unreachable objects; the interpreter's
\* garbage collector finalises them at a moment of its own choosing. That
\* closes them, and the uncommitted INSERT is rolled back.
Collect ==
    /\ conns > 0
    /\ conns' = 0
    /\ UNCHANGED <<table, seq, ret, stmt, gui, click>>

Next ==
    \/ LoadCollection
    \/ \E stamp \in StampInputs : AddStamp(stamp)
    \/ \E stamp_id \in 1..(MaxId + 1), stamp \in StampInputs : UpdateStamp(stamp_id, stamp)
    \/ \E stamp_id \in 1..(MaxId + 1) : DeleteStamp(stamp_id)
    \/ \E criteria \in SearchInputs : SearchStamps(criteria)
    \/ GetStatistics
    \/ Return
    \/ Collect

Spec == Init /\ [][Next]_vars

\* ------------------------------------------------------------------------
\* Stamp.calculate_total_value on its own: a stamp is drawn, then valued.
\* ------------------------------------------------------------------------
QtyInputs == {None, Some(0), Some(1), Some(3)}

CentInputs == {0, 10, 250, 1999}

ValueInputs ==
    {[DefaultStamp(<<"A", "1">>, <<>>) EXCEPT
         !.used = u, !.qty_mint = qm, !.qty_used = qu,
         !.catalog_value_mint = DecOfCents(cm),
         !.catalog_value_used = DecOfCents(cu)] :
     u \in BOOLEAN, qm \in QtyInputs, qu \in QtyInputs,
     cm \in CentInputs, cu \in CentInputs}

InitValue ==
    /\ table = <<>>
    /\ seq = 0
    /\ conns = 0
    /\ stmt = 0
    /\ gui = GuiNew(FALSE, <<>>)
    /\ click = ClickNew(FALSE, StartTime)
    /\ \E stamp \in ValueInputs : ret = Ret("stamp", 0, stamp, <<>>, "none", <<>>)

CalculateTotalValue ==
    /\ ret.op = "stamp"
    /\ ret' = Ret("calculate_total_value", 0, ret.stamp, <<>>, "none",
                  calculate_total_value(ret.stamp))
    /\ UNCHANGED <<table, seq, conns, stmt, gui, click>>

NextValue == CalculateTotalValue

SpecValue == InitValue /\ [][NextValue]_vars

\* ------------------------------------------------------------------------
\* get_statistics statement by statement, with a second connection to the
\* same file (another DatabaseManager, another process) that commits between
\* the statements. The call opens no transaction: each SELECT reads the
\* state committed when it runs.
\* ------------------------------------------------------------------------

\* the rows and the records the second connection works with
MaxStatsId == 2

StatsStamps == {Stamp1, Stamp2, Stamp3}

\* the stats dict as get_statistics initialises it
EmptyStats ==
    [total_stamps |-> 0, used_stamps |-> 0, mint_stamps |-> 0, countries |-> 0,
     total_catalog_value |-> DecZero, average_value |-> DecZero,
     want_list_items |-> 0, for_sale_items |-> 0]

\* SELECT COUNT(DISTINCT country) FROM stamps
CountCountries(tbl) ==
    Cardinality({tbl[i].country[1] : i \in {k \in 1..Len(tbl) : tbl[k].country # None}})

\* SELECT COUNT(*) FROM stamps
StatsTotal ==
    /\ ret.op = "none"
    /\ stmt = 0
    /\ ret' = Ret("get_statistics", 0, <<>>, <<>>, "none",
                  [EmptyStats EXCEPT !.total_stamps = Len(table)])
    /\ stmt' = 1
    /\ UNCHANGED <<table, seq, conns, gui, click>>

\* SELECT COUNT(*) FROM stamps WHERE used=1
StatsUsed ==
    /\ stmt = 1
    /\ ret' = [ret EXCEPT !.value.used_stamps = CountFlag(table, "used")]
    /\ stmt' = 2
    /\ UNCHANGED <<table, seq, conns, gui, click>>

StatsCountries ==
    /\ stmt = 2
    /\ ret' = [ret EXCEPT !.value.countries = CountCountries(table)]
    /\ stmt' = 3
    /\ UNCHANGED <<table, seq, conns, gui, click>>

\* SELECT COUNT(*) FROM stamps WHERE want_list=1
StatsWantList ==
    /\ stmt = 3
    /\ ret' = [ret EXCEPT !.value.want_list_items = CountFlag(table, "want_list")]
    /\ stmt' = 4
    /\ UNCHANGED <<table, seq, conns, gui, click>>

\* SELECT COUNT(*) FROM stamps WHERE for_sale=1
StatsForSale ==
    /\ stmt = 4
    /\ ret' = [ret EXCEPT !.value.for_sale_items = CountFlag(table, "for_sale")]
    /\ stmt' = 5
    /\ UNCHANGED <<table, seq, conns, gui, click>>

\* the stats once the SUM has been read: mint_stamps from the two counts
\* read before, the total from the SUM, then the average
StatsWithValue(stats, tbl) ==
    WithAverage([stats EXCEPT
        !.mint_stamps = stats.total_stamps - stats.used_stamps,
        !.total_catalog_value = TotalCatalogValue(SqlSum(tbl, Len(tbl)))])

\* SELECT SUM(...) FROM stamps, the average, close and return
StatsValue ==
    /\ stmt = 5
    /\ ret' = [ret EXCEPT !.value = StatsWithValue(ret.value, table)]
    /\ stmt' = 0
    /\ UNCHANGED <<table, seq, conns, gui, click>>

\* the second connection commits an insert, an update or a delete
OtherAdd(stamp) ==
    /\ seq < MaxStatsId
    /\ table' = add_stamp(table, seq, stamp, Some(seq + 1)).table
    /\ seq' = seq + 1
    /\ UNCHANGED <<ret, conns, stmt, gui, click>>

OtherUpdate(stamp_id, stamp) ==
    /\ table' = update_stamp(table, stamp_id, stamp)
    /\ UNCHANGED <<seq, ret, conns, stmt, gui, click>>

OtherDelete(stamp_id) ==
    /\ table' = delete_stamp(table, stamp_id)
    /\ UNCHANGED <<seq, ret, conns, stmt, gui, click>>

\* the caller has taken the statistics
StatsReturn ==
    /\ ret.op # "none"
    /\ stmt = 0
    /\ ret' = NoRet
    /\ UNCHANGED <<table, seq, conns, stmt, gui, click>>

NextStats ==
    \/ StatsTotal
    \/ StatsUsed
    \/ StatsCountries
    \/ StatsWantList
    \/ StatsForSale
    \/ StatsValue
    \/ \E stamp \in StatsStamps : OtherAdd(stamp)
    \/ \E stamp_id \in 1..MaxStatsId, stamp \in StatsStamps : OtherUpdate(stamp_id, stamp)
    \/ \E stamp_id \in 1..MaxStatsId : OtherDelete(stamp_id)
    \/ StatsReturn

SpecStats == Init /\ [][NextStats]_vars

\* ------------------------------------------------------------------------
\* The properties.
\* ------------------------------------------------------------------------

\* ------------------------------------------------------------------------
\* EnhancedStampGUI: the window over a store, one action per event that
\* run() reads. The window is the store's only user (conns stays 0), and
\* the store gives every insert an id. ret holds the last event, with the
\* steps, popups and target of its handler as value.
\* ------------------------------------------------------------------------
MaxGuiId == 2

\* the clock's last reading at which a table click is still accepted
MaxGuiTime == 16

GuiStamps == {Stamp1, Stamp2}

\* the seconds between one reading of the clock and the next, in ticks
GuiGaps == {2}

\* the stores a window may open on: a new one, and stores which earlier
\* runs of the program left behind
StoreOne == add_stamp(<<>>, 0, Stamp1, Some(1))

StoreTwo == add_stamp(StoreOne.table, StoreOne.seq, Stamp2, Some(2))

GuiStores ==
    {[table |-> <<>>, seq |-> 0],
     [table |-> StoreOne.table, seq |-> StoreOne.seq],
     [table |-> delete_stamp(StoreTwo.table, 1), seq |-> StoreTwo.seq]}

\* what the search fields hold when Search is pressed
GuiCriteria ==
    {CriteriaEmpty,
     [CriteriaEmpty EXCEPT !.description = PyStr(<<"a">>)],
     [CriteriaEmpty EXCEPT !.used_only = PyBool(TRUE)]}

\* the key events
KeyEvents ==
    {<<"c", "t", "r", "l", "+", "s">>,
     <<"C", "o", "n", "t", "r", "o", "l", "-", "s">>,
     <<"c", "m", "d", "+", "s">>,
     <<"C", "o", "m", "m", "a", "n", "d", "-", "s">>,
     <<"c", "t", "r", "l", "+", "n">>,
     <<"c", "m", "d", "+", "d">>,
     <<"c", "m", "d", "+", "e">>,
     <<"c", "t", "r", "l", "+", "d", "e", "l">>,
     <<"R", "e", "t", "u", "r", "n">>,
     <<"x">>}

\* what popup_yes_no may return (None when the popup is closed)
Answers == {"Yes", "No", "None"}

\* the branch of every key event on either platform
BranchOf == [event \in KeyEvents, macos \in BOOLEAN |-> KeyBranch(StrLower(event), macos)]

\* what a key event finds in the window: the form's fields (valid or not),
\* the user's answer and the row selected, each one varied for the events
\* whose branch reads it
KeyValues(branch) ==
    [valid : IF branch = "save" THEN BOOLEAN ELSE {TRUE},
     stamp : IF branch = "save" THEN GuiStamps ELSE {Stamp1},
     answer : IF branch = "delete" THEN Answers ELSE {"Yes"},
     row : IF branch = "enter" THEN 0..(MaxGuiId - 1) ELSE {0}]

InitGui ==
    \E macos \in BOOLEAN, store \in GuiStores :
        /\ table = store.table
        /\ seq = store.seq
        /\ ret = NoRet
        /\ conns = 0
        /\ stmt = 0
        /\ gui = GuiNew(macos, store.table)
        /\ click = ClickNew(macos, StartTime)

GuiLog(r) ==
    [steps |-> r.steps, popups |-> r.popups, target |-> r.target, answer |-> r.answer]

\* an event whose handler gave r; a key event is logged as "key", with the
\* name of the key in the place of the criteria
GuiEvent(event, key, r) ==
    /\ ret.op = "none"
    /\ r.seq <= MaxGuiId
    /\ gui' = r.gui
    /\ table' = r.table
    /\ seq' = r.seq
    /\ ret' = Ret(event, 0, <<>>, key, "none", GuiLog(r))
    /\ UNCHANGED <<conns, stmt, click>>

\* run() for the event 'stamp_table' with row selected, dt ticks after the
\* clock was last read: a double-click opens the row for editing and resets
\* the click state, any other click selects the row
TableClickStep(row, dt) ==
    /\ row < Len(gui.search_results)
    /\ LET h == handle_table_event(click, row, click.time + dt)
       IN  /\ click' = IF h.is_double_click THEN reset_click_state(h.click) ELSE h.click
           /\ gui' = handle_table_select(gui, row)
           /\ ret' = Ret("stamp_table", row, <<>>, <<>>, "none",
                         [steps |-> IF h.is_double_click
                                    THEN <<"_handle_table_double_click", "reset_click_state">>
                                    ELSE <<"_handle_table_select">>,
                          popups |-> <<>>, target |-> None, answer |-> None])
    /\ UNCHANGED <<table, seq, conns, stmt>>

TableClick(row, dt) == ret.op = "none" /\ TableClickStep(row, dt)

\* the context menu's 'Edit Stamp' and 'View Details' on the selected row
ContextMenu(event, row) ==
    /\ row < Len(gui.search_results)
    /\ GuiEvent(event, <<>>,
                GuiResult(handle_table_select(gui, row), table, seq,
                          <<IF event = "Edit Stamp" THEN "_handle_table_double_click"
                            ELSE "_handle_table_select">>, <<>>, None))

ClearForm ==
    GuiEvent("Clear Form", <<>>,
             GuiResult(clear_form(gui), table, seq, <<"_clear_form">>, <<>>, None))

\* 'Add Stamp' and 'Update Stamp': the handler runs if the fields validate
AddStampEvent(stamp, valid) ==
    GuiEvent("Add Stamp", <<>>,
             IF valid THEN gui_add_stamp(gui, table, seq, stamp)
             ELSE GuiResult(gui, table, seq, <<"_validate_all_fields">>, <<>>, None))

UpdateStampEvent(stamp, valid) ==
    GuiEvent("Update Stamp", <<>>,
             IF valid THEN gui_update_stamp(gui, table, seq, stamp)
             ELSE GuiResult(gui, table, seq, <<"_validate_all_fields">>, <<>>, None))

\* 'Delete Stamp', from the button or the context menu
DeleteStampEvent(answer) ==
    GuiEvent("Delete Stamp", <<>>, gui_delete_stamp(gui, table, seq, answer))

Search(criteria) ==
    GuiEvent("Search", <<>>, perform_search(gui, table, seq, criteria))

ClearSearch ==
    GuiEvent("Clear Search", <<>>, clear_search(gui, table, seq))

TabGroup ==
    GuiEvent("tab_group", <<>>, clear_search(gui, table, seq))

KeyEvent(event, valid, stamp, answer, row) ==
    GuiEvent("key", event,
             handle_keyboard_shortcuts(gui, table, seq, event, valid, stamp, answer, row))

GuiReturn ==
    /\ ret.op # "none"
    /\ ret' = NoRet
    /\ UNCHANGED <<table, seq, conns, stmt, gui, click>>

NextGui ==
    \/ \E row \in 0..(MaxGuiId - 1), dt \in GuiGaps :
           click.time + dt <= MaxGuiTime /\ TableClick(row, dt)
    \/ \E event \in {"Edit Stamp", "View Details"}, row \in 0..(MaxGuiId - 1) :
           ContextMenu(event, row)
    \/ ClearForm
    \/ \E stamp \in GuiStamps, valid \in BOOLEAN : AddStampEvent(stamp, valid)
    \/ \E stamp \in GuiStamps, valid \in BOOLEAN : UpdateStampEvent(stamp, valid)
    \/ \E answer \in Answers : DeleteStampEvent(answer)
    \/ \E criteria \in GuiCriteria : Search(criteria)
    \/ ClearSearch
    \/ TabGroup
    \/ \E event \in KeyEvents : \E v \in KeyValues(BranchOf[event, gui.macos]) :
           KeyEvent(event, v.valid, v.stamp, v.answer, v.row)
    \/ GuiReturn

SpecGui == InitGui /\ [][NextGui]_vars

\* ------------------------------------------------------------------------
\* The clicks on the stamp table alone: the window over a store of two
\* rows, clicked at every gap around the least gap and the two thresholds.
\* Here ret is the last click (its row as stamp_id), and click.time the
\* clock at that click.
\* ------------------------------------------------------------------------
MaxClickTime == 30

ClickGaps == {0, 1, 2, 6, 7, 10, 11}

InitClick ==
    \E macos \in BOOLEAN :
        /\ table = StoreTwo.table
        /\ seq = StoreTwo.seq
        /\ ret = NoRet
        /\ conns = 0
        /\ stmt = 0
        /\ gui = GuiNew(macos, StoreTwo.table)
        /\ click = ClickNew(macos, StartTime)

\* run() for a table event in the tuple form that names a double click: it
\* is taken as one, the row is opened and the click state reset
DirectDoubleClick(row) ==
    /\ row < Len(gui.search_results)
    /\ click' = reset_click_state(click)
    /\ gui' = handle_table_select(gui, row)
    /\ ret' = Ret("stamp_table+2+", row, <<>>, <<>>, "none",
                  [steps |-> <<"_handle_table_double_click", "reset_click_state">>,
                   popups |-> <<>>, target |-> None, answer |-> None])
    /\ UNCHANGED <<table, seq, conns, stmt>>

NextClick ==
    \/ \E row \in 0..1, dt \in ClickGaps :
           click.time + dt <= MaxClickTime /\ TableClickStep(row, dt)
    \/ \E row \in 0..1 : DirectDoubleClick(row)

SpecClick == InitClick /\ [][NextClick]_vars

\* ------------------------------------------------------------------------
\* wxpython_stamp_gui.py: StampFrame and its edit form. Here gui holds the
\* frame's fields: current_stamp_id and the controls of the edit panel
\* (form), and search_results. The user opens rows for editing and presses
\* Update or Clear without typing into the form.
\* ------------------------------------------------------------------------
\* the choices of the two wx.Choice controls
ConditionChoices ==
    {Unknown,
     <<"P", "o", "o", "r">>,
     <<"F", "a", "i", "r">>,
     <<"F", "i", "n", "e">>,
     <<"V", "e", "r", "y", " ", "F", "i", "n", "e">>,
     <<"E", "x", "t", "r", "e", "m", "e", "l", "y", " ", "F", "i", "n", "e">>,
     <<"S", "u", "p", "e", "r", "b">>}

GumChoices ==
    {Unknown,
     <<"M", "i", "n", "t", " ", "N", "H">>,
     <<"H", "i", "n", "g", "e", "d">>,
     <<"H", "e", "a", "v", "i", "l", "y", " ", "H", "i", "n", "g", "e", "d">>,
     <<"N", "o", " ", "G", "u", "m">>}

\* the range of the year control and the value it starts with
YearMin == 1800

YearMax == 2030

YearInitial == 2023

QtyMax == 999

\* wx.SpinCtrl.SetValue: the value is brought into the control's range
SpinValue(v, lo, hi) == IF v < lo THEN lo ELSE IF v > hi THEN hi ELSE v

\* `x or dflt` for an Optional[int]
IntOr(x, dflt) == IF x = None \/ x[1] = 0 THEN dflt ELSE x[1]

\* `x or ""` for an Optional[str]
StrOrEmpty(x) == IF x = None THEN <<>> ELSE x[1]

\* `s or None` for the text of a control
TextOrNone(s) == IF s = <<>> THEN None ELSE Some(s)

\* wx.Choice.SetStringSelection: a string that is no choice leaves the
\* selection where it was
StringSelection(selected, s, choices) == IF s \in choices THEN s ELSE selected

\* f"{d:.2f}": the amount rounded to two decimals (half to even); the text
\* is held as the Decimal that Decimal(text) reads from it
FormatTwoDecimals(d) == IF d.exp < -2 THEN DecRound(d, (0 - 2) - d.exp) ELSE DecNorm(d)

\* the controls after CreateControls and after ClearForm
ClearedForm ==
    [scott_number |-> <<>>, description |-> <<>>, country |-> <<>>,
     year |-> YearInitial, denomination |-> <<>>, color |-> <<>>,
     location |-> <<>>, perforation |-> <<>>,
     condition_grade |-> Unknown, gum_condition |-> Unknown,
     qty_mint |-> 0, qty_used |-> 0,
     catalog_value_mint |-> DecZero, catalog_value_used |-> DecZero,
     used |-> FALSE, plate_block |-> FALSE, first_day_cover |-> FALSE,
     want_list |-> FALSE, for_sale |-> FALSE,
     purchase_price |-> DecZero, current_market_value |-> DecZero,
     source |-> <<>>, date_acquired |-> <<>>, notes |-> <<>>, image_path |-> <<>>]

\* StampFrame.LoadStampToForm: the controls after the stamp is loaded
LoadStampToForm(form, stamp) ==
    [scott_number |-> stamp.scott_number, description |-> stamp.description,
     country |-> StrOrEmpty(stamp.country),
     year |-> SpinValue(IntOr(stamp.year, YearInitial), YearMin, YearMax),
     denomination |-> StrOrEmpty(stamp.denomination),
     color |-> StrOrEmpty(stamp.color),
     location |-> StrOrEmpty(stamp.location),
     perforation |-> StrOrEmpty(stamp.perforation),
     condition_grade |->
         StringSelection(form.condition_grade, stamp.condition_grade, ConditionChoices),
     gum_condition |->
         StringSelection(form.gum_condition, stamp.gum_condition, GumChoices),
     qty_mint |-> SpinValue(IntOr(stamp.qty_mint, 0), 0, QtyMax),
     qty_used |-> SpinValue(IntOr(stamp.qty_used, 0), 0, QtyMax),
     catalog_value_mint |-> FormatTwoDecimals(stamp.catalog_value_mint),
     catalog_value_used |-> FormatTwoDecimals(stamp.catalog_value_used),
     used |-> stamp.used, plate_block |-> stamp.plate_block,
     first_day_cover |-> stamp.first_day_cover,
     want_list |-> stamp.want_list, for_sale |-> stamp.for_sale,
     purchase_price |-> FormatTwoDecimals(stamp.purchase_price),
     current_market_value |-> FormatTwoDecimals(stamp.current_market_value),
     source |-> StrOrEmpty(stamp.source),
     date_acquired |-> StrOrEmpty(stamp.date_acquired),
     notes |-> StrOrEmpty(stamp.notes),
     image_path |-> StrOrEmpty(stamp.image_path)]

\* StampFrame.CreateStampFromForm
CreateStampFromForm(form) ==
    [scott_number |-> form.scott_number, description |-> form.description,
     country |-> TextOrNone(form.country),
     year |-> IF form.year # YearInitial THEN Some(form.year) ELSE None,
     denomination |-> TextOrNone(form.denomination),
     color |-> TextOrNone(form.color),
     condition_grade |-> form.condition_grade,
     gum_condition |-> form.gum_condition,
     perforation |-> TextOrNone(form.perforation),
     used |-> form.used, plate_block |-> form.plate_block,
     first_day_cover |-> form.first_day_cover,
     location |-> TextOrNone(form.location), notes |-> TextOrNone(form.notes),
     qty_mint |-> Some(form.qty_mint), qty_used |-> Some(form.qty_used),
     catalog_value_mint |-> form.catalog_value_mint,
     catalog_value_used |-> form.catalog_value_used,
     purchase_price |-> form.purchase_price,
     current_market_value |-> form.current_market_value,
     want_list |-> form.want_list, for_sale |-> form.for_sale,
     date_acquired |-> TextOrNone(form.date_acquired),
     source |-> TextOrNone(form.source),
     image_path |-> TextOrNone(form.image_path)]

\* StampFrame.ValidateForm: str.strip() leaves something of both names (the
\* amounts of the form are texts written by LoadStampToForm and ClearForm,
\* which Decimal reads)
ValidateForm(form) ==
    /\ \E i \in 1..Len(form.scott_number) : form.scott_number[i] # " "
    /\ \E i \in 1..Len(form.description) : form.description[i] # " "

\* StampFrame.RefreshStampList: search_stamps with the all-empty criteria
RefreshStampList(tbl) == Paired(search_stamps(tbl, CriteriaEmpty).value)

\* the stamps the store may hold when the frame opens: every kind of year
\* the control can show, amounts of two decimals, qualities among the choices
WxYears == {None, Some(YearMin), Some(1999), Some(YearInitial), Some(YearMax)}

WxCents == {0, 10, 1999}

WxStamps ==
    {[DefaultStamp(<<"A", "1">>, <<"A", "b">>) EXCEPT
         !.country = Some(<<"U", "S">>), !.year = y,
         !.condition_grade = <<"F", "i", "n", "e">>,
         !.qty_mint = Some(3), !.catalog_value_mint = DecOfCents(c)] :
     y \in WxYears, c \in WxCents}

\* StampFrame.__init__ over a store of two rows
InitWx ==
    \E s1 \in WxStamps, s2 \in WxStamps :
        /\ table = add_stamp(add_stamp(<<>>, 0, s1, Some(1)).table, 1, s2, Some(2)).table
        /\ seq = 2
        /\ ret = NoRet
        /\ conns = 0
        /\ stmt = 0
        /\ gui = [current_stamp_id |-> None, form |-> ClearedForm,
                  search_results |-> RefreshStampList(table)]
        /\ click = ClickNew(FALSE, StartTime)

\* StampFrame.EditSelectedStamp(row), from a double click on the grid
EditSelectedStamp(row) ==
    /\ ret.op = "none"
    /\ row < Len(gui.search_results)
    /\ gui' = [gui EXCEPT !.current_stamp_id = gui.search_results[row + 1][1],
                          !.form = LoadStampToForm(gui.form, gui.search_results[row + 1][2])]
    /\ ret' = Ret("EditSelectedStamp", row, <<>>, <<>>, "none", <<>>)
    /\ UNCHANGED <<table, seq, conns, stmt, click>>

\* StampFrame.OnUpdateStamp
OnUpdateStamp ==
    /\ ret.op = "none"
    /\ IF Falsy(gui.current_stamp_id)
       THEN /\ ret' = Ret("OnUpdateStamp", 0, <<>>, <<>>, "none", <<"No stamp selected!">>)
            /\ UNCHANGED <<table, gui>>
       ELSE IF ~ValidateForm(gui.form)
       THEN /\ ret' = Ret("OnUpdateStamp", 0, <<>>, <<>>, "none", <<"Validation Error">>)
            /\ UNCHANGED <<table, gui>>
       ELSE /\ table' = update_stamp(table, gui.current_stamp_id[1],
                                     CreateStampFromForm(gui.form))
            /\ gui' = [current_stamp_id |-> None, form |-> ClearedForm,
                       search_results |-> RefreshStampList(table')]
            /\ ret' = Ret("OnUpdateStamp", gui.current_stamp_id[1], <<>>, <<>>, "none",
                          <<"Stamp updated successfully!">>)
    /\ UNCHANGED <<seq, conns, stmt, click>>

\* StampFrame.OnClearForm
OnClearForm ==
    /\ ret.op = "none"
    /\ gui' = [gui EXCEPT !.current_stamp_id = None, !.form = ClearedForm]
    /\ ret' = Ret("OnClearForm", 0, <<>>, <<>>, "none", <<>>)
    /\ UNCHANGED <<table, seq, conns, stmt, click>>

WxReturn ==
    /\ ret.op # "none"
    /\ ret' = NoRet
    /\ UNCHANGED <<table, seq, conns, stmt, gui, click>>

NextWx ==
    \/ \E row \in 0..1 : EditSelectedStamp(row)
    \/ OnUpdateStamp
    \/ OnClearForm
    \/ WxReturn

SpecWx == InitWx /\ [][NextWx]_vars

\* the ids of a search result
ResultIds(value) == {value[i][1] : i \in 1..Len(value)}

\* the criteria with only the criterion key of criteria filled in
OnlyCriterion(criteria, key) == [CriteriaEmpty EXCEPT ![key] = criteria[key]]

\* a search that was given all the criteria keys has returned
Searched == ret.op = "search_stamps" /\ CriteriaKeys \subseteq DOMAIN ret.criteria

\* C1: after add_stamp(r), load_collection yields a record equal to r in
\* every field (the record loaded from the row that add_stamp inserted).
RoundTrip ==
    (ret.op = "add_stamp" /\ ret.raised = "none") =>
        \E i \in 1..Len(table) :
            /\ table[i].id = ret.value
            /\ load_collection(table)[i] = ret.stamp

\* C2: a search with two non-empty criteria returns the ids of the rows
\* that the search with the one criterion alone and the search with the
\* other criterion alone both select.
SearchConjunction ==
    Searched =>
        \A a \in NonEmptyKeys(ret.criteria), b \in NonEmptyKeys(ret.criteria) :
            a # b =>
                /\ ret.raised = "none"
                /\ ResultIds(ret.value) =
                       Ids(SearchRows(table, OnlyCriterion(ret.criteria, a)))
                       \cap Ids(SearchRows(table, OnlyCriterion(ret.criteria, b)))

\* a search with two criteria has returned some but not all of what either
\* criterion alone selects
SearchConjunctionWitness ==
    /\ Searched
    /\ Cardinality(NonEmptyKeys(ret.criteria)) = 2
    /\ ret.value # <<>>
    /\ \A a \in NonEmptyKeys(ret.criteria) :
           ResultIds(ret.value) # Ids(SearchRows(table, OnlyCriterion(ret.criteria, a)))

\* C3: a search with the empty mapping (no keys at all) completes without
\* error and returns every record of the store.
SearchEmptyMapping ==
    (ret.op = "search_stamps" /\ DOMAIN ret.criteria = {}) =>
        /\ ret.raised = "none"
        /\ ResultIds(ret.value) = Ids(table)
        /\ Len(ret.value) = Len(table)

\* Decimal + Decimal (exact below DecimalPrec digits)
DecAdd(a, b) ==
    LET e == IF a.exp < b.exp THEN a.exp ELSE b.exp
    IN  DecNorm([coef |-> BigAdd(BigMulPow10(a.coef, a.exp - e),
                                 BigMulPow10(b.coef, b.exp - e)),
                 exp |-> e])

\* the Decimal sum of calculate_total_value() over the first i stamps
RECURSIVE SumOfValues(_, _)
SumOfValues(stamps, i) ==
    IF i = 0 THEN DecZero
    ELSE DecAdd(SumOfValues(stamps, i - 1), calculate_total_value(stamps[i]))

\* the statistics have been returned
GotStatistics == ret.op = "get_statistics"

\* C4: total_catalog_value of get_statistics equals the sum of
\* calculate_total_value() over the records load_collection returns.
TotalIsSumOfValues ==
    GotStatistics =>
        ret.value.total_catalog_value =
            SumOfValues(load_collection(table), Len(table))

\* C5: calculate_total_value() is catalog_value_used * qty_used for a used
\* stamp and catalog_value_mint * qty_mint otherwise, with a quantity of
\* None counted as 0; it does not raise and the fields of the other
\* condition do not enter its value.
TotalValueLaw ==
    ret.op = "calculate_total_value" =>
        LET qty == IF ret.stamp.used THEN ret.stamp.qty_used ELSE ret.stamp.qty_mint
            n   == IF qty = None THEN 0 ELSE qty[1]
        IN  /\ ret.raised = "none"
            /\ \E c \in CentInputs :
                   /\ DecOfCents(c) = IF ret.stamp.used THEN ret.stamp.catalog_value_used
                                      ELSE ret.stamp.catalog_value_mint
                   /\ ret.value = DecOfCents(c * n)

\* a used stamp without a used quantity was valued at 0 although its mint
\* fields give a nonzero product
TotalValueLawWitness ==
    /\ ret.op = "calculate_total_value"
    /\ ret.stamp.used
    /\ ret.stamp.qty_used = None
    /\ ret.stamp.catalog_value_used # DecZero
    /\ ret.stamp.qty_mint = Some(3)
    /\ ret.stamp.catalog_value_mint # DecZero
    /\ ret.value = DecZero

\* C6: average_value is 0 when the store is empty and otherwise
\* total_catalog_value / total_stamps (the Decimal quotient).
AverageIsTotalOverCount ==
    GotStatistics =>
        ret.value.average_value =
            IF Len(table) = 0 THEN DecZero
            ELSE DecDivInt(ret.value.total_catalog_value, ret.value.total_stamps)

\* statistics of three stamps with a nonzero total, whose average is not
\* the total
AverageIsTotalOverCountWitness ==
    /\ GotStatistics
    /\ Len(table) = 3
    /\ ret.value.total_catalog_value # DecZero
    /\ ret.value.average_value # ret.value.total_catalog_value
    /\ ret.value.average_value # DecZero

\* C7: total_stamps is the number of rows, used_stamps the number of rows
\* that load with used = true, mint_stamps is total_stamps - used_stamps
\* and is not negative.
CountsAgree ==
    GotStatistics =>
        /\ ret.value.total_stamps = Len(table)
        /\ ret.value.used_stamps =
               Cardinality({i \in 1..Len(table) : load_collection(table)[i].used})
        /\ ret.value.mint_stamps = ret.value.total_stamps - ret.value.used_stamps
        /\ ret.value.mint_stamps >= 0

\* statistics of a store with two used stamps and one mint stamp
CountsAgreeWitness ==
    /\ GotStatistics
    /\ ret.value.used_stamps = 2
    /\ ret.value.mint_stamps = 1

\* no connection left open by a failed insert holds the write lock
Unlocked == conns = 0

\* C8: delete_stamp with an id that no row has does not raise and changes
\* nothing in the store (the store being unlocked).
DeleteMissingIsNoOp ==
    [][(Unlocked /\ ret'.op = "delete_stamp" /\ ret'.stamp_id \notin Ids(table)) =>
           (ret'.raised = "none" /\ table' = table /\ seq' = seq)]_vars

\* a delete of an id that was never assigned has returned on a store that
\* holds rows
DeleteMissingIsNoOpWitness ==
    /\ ret.op = "delete_stamp"
    /\ ret.raised = "none"
    /\ ret.stamp_id > seq
    /\ Len(table) >= 2

\* C9: update_stamp with an id that no row has does not raise, creates no
\* row and changes nothing in the store (the store being unlocked).
UpdateMissingIsNoOp ==
    [][(Unlocked /\ ret'.op = "update_stamp" /\ ret'.stamp_id \notin Ids(table)) =>
           (ret'.raised = "none" /\ table' = table /\ seq' = seq)]_vars

\* an update of an id that was never assigned has returned on a store that
\* holds rows
UpdateMissingIsNoOpWitness ==
    /\ ret.op = "update_stamp"
    /\ ret.raised = "none"
    /\ ret.stamp_id > seq
    /\ Len(table) >= 2

\* the rows whose flag column holds 1
FlagIds(tbl, col) == {tbl[i].id : i \in {k \in 1..Len(tbl) : tbl[k][col] = Some(1)}}

\* C10: with used_only true a search returns exactly the rows whose stored
\* used flag is true (among those the other criteria select); with
\* used_only false it places no restriction on used; the same holds for
\* want_list.
FlagsRestrict ==
    Searched =>
        /\ ret.raised = "none"
        /\ ResultIds(ret.value) =
               (Ids(SearchRows(table, [ret.criteria EXCEPT !.used_only = PyBool(FALSE),
                                                   !.want_list = PyBool(FALSE)]))
                \cap (IF ret.criteria.used_only = PyBool(TRUE)
                      THEN FlagIds(table, "used") ELSE Ids(table)))
                \cap (IF ret.criteria.want_list = PyBool(TRUE)
                      THEN FlagIds(table, "want_list") ELSE Ids(table))

\* a search with used_only true has returned the used rows of a store that
\* also holds a mint row
FlagsRestrictWitness ==
    /\ Searched
    /\ ret.criteria.used_only = PyBool(TRUE)
    /\ ret.value # <<>>
    /\ Len(ret.value) < Len(table)
    /\ NonEmptyKeys(ret.criteria) = {"used_only"}

\* the ids of the rows whose year is stored and lies within the bounds that
\* criteria supplies
YearIds(tbl, criteria) ==
    {tbl[i].id : i \in {k \in 1..Len(tbl) :
        /\ tbl[k].year # None
        /\ "year_from" \in NonEmptyKeys(criteria) =>
               IntOf(criteria.year_from) <= tbl[k].year[1]
        /\ "year_to" \in NonEmptyKeys(criteria) =>
               tbl[k].year[1] <= IntOf(criteria.year_to)}}

\* C11: a search given only year_from and/or year_to (the value 0 included)
\* returns exactly the rows whose year is stored and lies within the bounds
\* given, both inclusive.
YearRange ==
    (/\ Searched
     /\ NonEmptyKeys(ret.criteria) # {}
     /\ NonEmptyKeys(ret.criteria) \subseteq {"year_from", "year_to"})
    => ResultIds(ret.value) = YearIds(table, ret.criteria)

\* txt contains t as a run of characters, letters compared without regard to
\* case
ContainsIgnoreCase(txt, t) ==
    \E k \in 0..(Len(txt) - Len(t)) :
        \A j \in 1..Len(t) : ToLower(txt[k + j]) = ToLower(t[j])

\* the ids of the rows whose column col is stored and contains t
SubstringIds(tbl, col, t) ==
    {tbl[i].id : i \in {k \in 1..Len(tbl) :
        tbl[k][col] # None /\ ContainsIgnoreCase(tbl[k][col][1], t)}}

\* C12: a search given only a non-empty text t for description, scott_number
\* or country returns exactly the rows whose column contains t as a literal
\* substring, ignoring letter case, also when t contains '%' or '_'.
SubstringMatch ==
    \A key \in {"description", "scott_number", "country"} :
        (Searched /\ NonEmptyKeys(ret.criteria) = {key})
        => ResultIds(ret.value) = SubstringIds(table, key, ret.criteria[key].s)

\* C13: update_stamp(id, r) for an id that is present makes that row load
\* back with exactly the fields of r, keeps its id and the number of rows, and
\* leaves every other row as it was (the store being unlocked).
UpdateInPlace ==
    [][(Unlocked /\ ret'.op = "update_stamp" /\ ret'.stamp_id \in Ids(table)) =>
        /\ Len(table') = Len(table)
        /\ \A i \in 1..Len(table) :
               /\ table'[i].id = table[i].id
               /\ table[i].id = ret'.stamp_id =>
                      create_stamp_from_row(table'[i]) = ret'.stamp
               /\ table[i].id # ret'.stamp_id => table'[i] = table[i]]_vars

\* C14: delete_stamp(id) for an id that is present removes exactly that row:
\* the number of rows drops by one, no search returns the id any more, and
\* every other row is still there, unchanged and in its place (the store
\* being unlocked).
DeleteRemovesRow ==
    [][(Unlocked /\ ret'.op = "delete_stamp" /\ ret'.stamp_id \in Ids(table)) =>
        /\ Len(table') = Len(table) - 1
        /\ \A criteria \in FullCriteria :
               ret'.stamp_id \notin Ids(SearchRows(table', criteria))
        /\ \A i \in 1..Len(table) :
               table[i].id # ret'.stamp_id =>
                   table'[IF table[i].id < ret'.stamp_id THEN i ELSE i - 1] = table[i]]_vars

\* the second of three rows has been deleted
DeleteRemovesRowWitness ==
    /\ ret.op = "delete_stamp"
    /\ ret.raised = "none"
    /\ ret.stamp_id = 2
    /\ seq = 3
    /\ Ids(table) = {1, 3}

\* C15: an add_stamp(r) that returns gives a positive id that no row had at
\* the call, adds exactly one row, which carries that id and the columns of
\* r, and leaves the rows there were unchanged; and no operation other than
\* delete_stamp changes the id of a row.
InsertFreshId ==
    [][/\ (ret'.op = "add_stamp" /\ ret'.raised = "none") =>
           /\ ret'.value > 0
           /\ ret'.value \notin Ids(table)
           /\ Len(table') = Len(table) + 1
           /\ table'[Len(table')] = Row(ret'.value, stamp_to_tuple(ret'.stamp))
           /\ SubSeq(table', 1, Len(table)) = table
       /\ ret'.op # "delete_stamp" =>
           /\ Len(table') >= Len(table)
           /\ \A i \in 1..Len(table) : table'[i].id = table[i].id]_vars

\* an add has returned the id 3 on a store that held the row of id 1 alone,
\* the row of id 2 having been deleted: the id does not follow the number of
\* rows
InsertFreshIdWitness ==
    /\ ret.op = "add_stamp"
    /\ ret.raised = "none"
    /\ ret.value = 3
    /\ Len(table) = 2
    /\ table[1].id = 1
    /\ table[2].id = 3

\* C16: an add_stamp for which the store yields no id fails with StorageError,
\* returns no id, and leaves the store without a new row. (On an unlocked
\* store the missing id is the one way in which add_stamp fails.)
InsertWithoutId ==
    [][(Unlocked /\ ret'.op = "add_stamp" /\ ret'.raised # "none") =>
           /\ ret'.raised = "StorageError"
           /\ ret'.value = 0
           /\ table' = table
           /\ seq' = seq]_vars

\* C17: a row's year loads as None when it is NULL, and as the stored
\* integer otherwise, 0 included.
YearMapping ==
    ret.op = "load_collection" =>
        \A i \in 1..Len(table) : ret.value[i].year = table[i].year

\* C18: a row's condition_grade and gum_condition load as the stored text,
\* the empty text included; NULL alone loads as 'Unknown'.
GradeMapping ==
    ret.op = "load_collection" =>
        \A i \in 1..Len(table) :
            \A col \in {"condition_grade", "gum_condition"} :
                ret.value[i][col] =
                    IF table[i][col] = None THEN Unknown ELSE table[i][col][1]

\* C19: a search whose seven criteria are all present and empty returns one
\* (id, record) pair for every row of the store, in the order and with the
\* records of load_collection.
AllEmptyEqualsLoad ==
    (Searched /\ ret.criteria = CriteriaEmpty) =>
        /\ ret.raised = "none"
        /\ Len(ret.value) = Len(table)
        /\ \A i \in 1..Len(table) :
               ret.value[i] = <<table[i].id, load_collection(table)[i]>>

\* the all-empty search has returned both rows of a store that holds the
\* ids 1 and 3, one of them with a NULL country
AllEmptyEqualsLoadWitness ==
    /\ Searched
    /\ ret.criteria = CriteriaEmpty
    /\ Len(ret.value) = 2
    /\ ret.value[1][1] = 1
    /\ ret.value[2][1] = 3
    /\ \E i \in 1..Len(table) : table[i].country = None

\* C20: once an operation has returned or failed, the connection it opened
\* has been released; no connection opened by an operation is open while
\* control is with the caller.
ConnectionReleased == conns = 0

\* the currency fields of a record
CurrencyFields ==
    {"catalog_value_mint", "catalog_value_used", "purchase_price",
     "current_market_value"}

\* the product the statistics query forms for a row, in exact decimals: the
\* amount of the row's condition times its quantity, nothing for a NULL
RowProduct(row) ==
    IF row.used # None /\ row.used[1] = 1
    THEN IF row.qty_used = None THEN DecZero
         ELSE DecMulInt(DecimalOr(row.catalog_value_used), row.qty_used[1])
    ELSE IF row.qty_mint = None THEN DecZero
         ELSE DecMulInt(DecimalOr(row.catalog_value_mint), row.qty_mint[1])

\* the exact decimal sum of the products of the first i rows
RECURSIVE ExactSum(_, _)
ExactSum(tbl, i) ==
    IF i = 0 THEN DecZero ELSE DecAdd(ExactSum(tbl, i - 1), RowProduct(tbl[i]))

\* C21: the currency amounts go to the store and come back exactly: after
\* add_stamp(r) the row inserted loads back with the four amounts of r, and
\* total_catalog_value of get_statistics is the exact decimal sum of the
\* rows' products.
ExactCurrency ==
    /\ (ret.op = "add_stamp" /\ ret.raised = "none") =>
           \A i \in 1..Len(table) :
               table[i].id = ret.value =>
                   \A f \in CurrencyFields :
                       create_stamp_from_row(table[i])[f] = ret.stamp[f]
    /\ GotStatistics =>
           ret.value.total_catalog_value = ExactSum(table, Len(table))

\* C22: every id that add_stamp returns is greater than every id returned
\* before, whatever was deleted in between. (seq is 0 at first, takes the
\* value of each id returned and changes in no other step, so it is the
\* largest id returned so far.)
IdsNeverReused ==
    [][IF ret'.op = "add_stamp" /\ ret'.raised = "none" /\ ret.op = "none"
       THEN ret'.value > seq /\ seq' = ret'.value
       ELSE seq' = seq]_vars

\* an add has returned the id 3 on a store that two deletions had emptied
IdsNeverReusedWitness ==
    /\ ret.op = "add_stamp"
    /\ ret.raised = "none"
    /\ ret.value = 3
    /\ Ids(table) = {3}

\* the statistics have been returned by a call whose statements another
\* connection could commit between
GotStatisticsStmts == ret.op = "get_statistics" /\ stmt = 0

\* C23: the values one get_statistics call returns describe one state of the
\* store, also when another connection commits between the call's
\* statements: no count exceeds total_stamps (in particular used_stamps <=
\* total_stamps), mint_stamps is not negative, and an average is given
\* exactly when there is a total.
StatsOneState ==
    GotStatisticsStmts =>
        /\ ret.value.used_stamps <= ret.value.total_stamps
        /\ ret.value.mint_stamps >= 0
        /\ ret.value.countries <= ret.value.total_stamps
        /\ ret.value.want_list_items <= ret.value.total_stamps
        /\ ret.value.for_sale_items <= ret.value.total_stamps
        /\ ret.value.total_stamps = 0 => ret.value.total_catalog_value = DecZero

\* the handlers that ran for the event in ret
Handled(r, handlers) ==
    r.op # "none" /\ r.value.steps # <<>> /\ r.value.steps[1] \in handlers

\* C24: _update_stamp and _delete_stamp called while current_stamp_id is None
\* report "No stamp selected!", make no call of the persistence layer (their
\* steps end with the handler itself), and leave the store, the selection and
\* search_results as they were.
NoSelectionNoMutation ==
    [][(/\ ret.op = "none"
        /\ gui.current_stamp_id = None
        /\ Handled(ret', {"_update_stamp", "_delete_stamp"}))
       => /\ ret'.value.popups = <<"No stamp selected!">>
          /\ Len(ret'.value.steps) = 1
          /\ table' = table
          /\ seq' = seq
          /\ gui' = gui]_vars

\* Update Stamp was pressed over a store of one row with nothing selected
NoSelectionNoMutationWitness ==
    /\ ret.op = "Update Stamp"
    /\ ret.value.steps = <<"_update_stamp">>
    /\ ret.value.popups = <<"No stamp selected!">>
    /\ gui.current_stamp_id = None
    /\ Len(table) = 1

\* C25: _delete_stamp with a stamp selected asks for confirmation; it calls
\* delete_stamp, with current_stamp_id, if and only if the answer is 'Yes'.
\* On 'Yes' the delete comes first, then the form is cleared, the list
\* refreshed (it shows the store after the delete) and the statistics
\* updated; on any other answer the store and current_stamp_id are unchanged.
DeleteNeedsConfirmation ==
    [][(/\ ret.op = "none"
        /\ gui.current_stamp_id # None
        /\ Handled(ret', {"_delete_stamp"}))
       => /\ ret'.value.answer # None
          /\ IF ret'.value.answer = Some("Yes")
             THEN /\ ret'.value.steps =
                        <<"_delete_stamp", "popup_yes_no", "delete_stamp", "_clear_form",
                          "_refresh_all_stamps_from_database", "_update_statistics">>
                  /\ ret'.value.target = gui.current_stamp_id
                  /\ Ids(table') = Ids(table) \ {gui.current_stamp_id[1]}
                  /\ gui'.current_stamp_id = None
                  /\ ResultIds(gui'.search_results) = {Some(id) : id \in Ids(table')}
             ELSE /\ \A i \in 1..Len(ret'.value.steps) : ret'.value.steps[i] # "delete_stamp"
                  /\ table' = table
                  /\ seq' = seq
                  /\ gui'.current_stamp_id = gui.current_stamp_id]_vars

\* the selected row of a two-row store was deleted after the answer 'Yes'
DeleteNeedsConfirmationWitness ==
    /\ ret.op = "Delete Stamp"
    /\ ret.value.answer = Some("Yes")
    /\ ret.value.target = Some(1)
    /\ Ids(table) = {2}
    /\ Len(gui.search_results) = 1

\* C26: after any sequence of the window's events current_stamp_id is None
\* or the id of a row that is in the store, so that Update and Delete never
\* act on an id that was deleted.
SelectionNotStale ==
    gui.current_stamp_id = None \/ gui.current_stamp_id[1] \in Ids(table)

\* row 2 was clicked in a list refreshed from a store whose row 1 is gone
SelectionNotStaleWitness ==
    /\ ret.op = "stamp_table"
    /\ gui.current_stamp_id = Some(2)
    /\ Ids(table) = {2}
    /\ seq = 2

\* C27: in every state of the window, each entry of search_results is paired
\* with the store id of its record, so that clicking a row selects that id.
RowsCarryIds ==
    \A i \in 1..Len(gui.search_results) :
        /\ gui.search_results[i][1] # None
        /\ \E k \in 1..Len(table) :
               /\ table[k].id = gui.search_results[i][1][1]
               /\ create_stamp_from_row(table[k]) = gui.search_results[i][2]

\* the click in r was reported as a double-click
ReportedDouble(r) ==
    r.op = "stamp_table" /\ r.value.steps[1] = "_handle_table_double_click"

\* C28: a plain click on a row of the table is reported as a double-click
\* only if the click before it was a plain click on the same row, recorded
\* (not itself reported as a double-click, after which the state is reset),
\* and the time between the two is more than 0.05 s and at most
\* double_click_threshold. So no two consecutive clicks are both reported.
DoubleClickTiming ==
    [][ReportedDouble(ret')
       => /\ ret.op = "stamp_table"
          /\ ~ReportedDouble(ret)
          /\ ret.stamp_id = ret'.stamp_id
          /\ click'.time - click.time > MinGap
          /\ click'.time - click.time <= click.double_click_threshold]_vars

\* the second of two clicks on row 1, one threshold apart, was reported
DoubleClickTimingWitness ==
    /\ ReportedDouble(ret)
    /\ ret.stamp_id = 1
    /\ click.time = StartTime + 2 + ThresholdOther
    /\ click.double_click_threshold = ThresholdOther
    /\ click.last_clicked_row = None

\* a key event that names Ctrl+S, or on macOS Cmd+S
SaveEvent(event_str, macos) ==
    \/ (InStr(CONTROL, event_str) \/ InStr(CTRL, event_str)) /\ InStr(<<"s">>, event_str)
    \/ macos /\ (InStr(COMMAND, event_str) \/ InStr(CMD, event_str))
             /\ InStr(<<"s">>, event_str)

\* C29: a key event whose lower-cased name contains 'control' or 'ctrl' and
\* 's', or on macOS 'command' or 'cmd' and 's', does not take the branch
\* that clears the form: it validates the fields, and when they validate it
\* calls _update_stamp if a stamp is selected and _add_stamp otherwise.
SaveShortcutSaves ==
    [][(/\ ret.op = "none"
        /\ ret'.op = "key"
        /\ SaveEvent(StrLower(ret'.criteria), gui.macos))
       => /\ ret'.value.steps # <<"_clear_form", "_switch_to_edit_tab">>
          /\ \/ ret'.value.steps = <<"_validate_all_fields">>
             \/ ret'.value.steps[1] = IF gui.current_stamp_id # None
                                      THEN "_update_stamp" ELSE "_add_stamp"]_vars

\* C30: a stored stamp loaded into the edit form of the wx front-end and
\* saved with Update, no field having been changed, leaves the stored fields
\* of its row (and of every row) as they were, whatever its year (none, or
\* an integer in the control's range) and its amounts of two decimals.
EditWithoutChanges ==
    [][(ret.op = "none" /\ ret'.op = "OnUpdateStamp") => table' = table]_vars

====
